---- MODULE Spec2Model ----
(***************************************************************************)
(* Model of the photo session engine of photo_ledger (src/models.py,       *)
(* class PhotoSession) together with the settings it reads (src/config.py).*)
(* Spec is the session in use, SpecReload the session across restarts of   *)
(* the application, and SpecApp the capture window of src/main.py with its *)
(* logging threads.                                                        *)
(*                                                                         *)
(* The file system is one function fs from the paths of the existing files *)
(* to their content; the project tree and the flat trash directory are     *)
(* both part of it.  The Excel session file is modelled as a data frame:   *)
(* a sequence of column names and a sequence of rows, each row a function  *)
(* from the column names to cell values.                                   *)
(*                                                                         *)
(* Python indices are kept 0-based in the operations' arguments; the       *)
(* sequence photos is 1-based, so index i names photos[i + 1].             *)
(***************************************************************************)
EXTENDS Integers, Sequences, FiniteSets, TLC

----------------------------------------------------------------------------
(* Bounds of the model *)

\* number of images captured in one behaviour
MaxAdds == 2
\* largest value of the setting undo_delete_limit that is explored
MaxUndoLimit == 2
\* number of failing file-system steps injected in one behaviour
MaxFaults == 1

\* the inputs of the operations
Subfolders == {"HR", "IT"}
\* a display name is a sequence of tokens joined by "_": <<"John", 2>> is
\* "John_2"
Names == {<<"John">>}

\* the failing step of one operation ("none": every step succeeds)
IOOutcomes ==
    {"none", "mkdir", "trash_move", "write", "move", "unlink",
     "excel_locked", "excel_io"}

----------------------------------------------------------------------------
(* Paths *)

ProjectFolder == "project"
TrashFolder == <<"trash">>
\* Path(str(None)), what the trash_path recorded after _move_to_trash
\* returned None names: a relative path "None" that no file has
NonePath == [parent |-> <<>>, name |-> [stem |-> <<"None">>, suffix |-> ""]]

\* f"{name}.jpg"
JpgName(name) == [stem |-> name, suffix |-> ".jpg"]
\* an f"{name}_{counter}" that forgets the extension
JpgNameCounterBare(name, counter) == [stem |-> Append(name, counter), suffix |-> ""]
\* f"{name}_{counter}.jpg"
JpgNameCounter(name, counter) == [stem |-> Append(name, counter), suffix |-> ".jpg"]
\* self.project_folder / subfolder
SubfolderPath(subfolder) == <<ProjectFolder, subfolder>>
\* folder / filename
Join(folder, filename) == [parent |-> folder, name |-> filename]

Exists(disk, path) == path \in DOMAIN disk

\* a move that leaves the source behind, as shutil.copy
ShutilMoveKeepsSource(disk, src, dst) ==
    [p \in DOMAIN disk \cup {dst} |-> IF p = dst THEN disk[src] ELSE disk[p]]

\* shutil.move(src, dst) of an existing file: dst is created or overwritten
ShutilMove(disk, src, dst) ==
    [p \in (DOMAIN disk \ {src}) \cup {dst} |->
        IF p = dst THEN disk[src] ELSE disk[p]]

\* an unlink that removes nothing
UnlinkNothing(disk, path) == disk

\* Path.unlink()
Unlink(disk, path) == [p \in DOMAIN disk \ {path} |-> disk[p]]

\* cv2.imwrite(path, frame)
WriteFile(disk, path, frame) ==
    [p \in DOMAIN disk \cup {path} |-> IF p = path THEN frame ELSE disk[p]]

TrashFiles(disk) == {p \in DOMAIN disk : p.parent = TrashFolder}
ProjectFiles(disk) == {p \in DOMAIN disk : p.parent # TrashFolder}

----------------------------------------------------------------------------
(* The session file as a data frame *)

ExcelColumns == <<"Timestamp", "Subfolder", "Name", "Filename", "File Path">>
RecordKeys == <<"timestamp", "subfolder", "name", "filename", "file_path">>
\* a cell is <<v>> when it holds the value v and <<>> when it is empty (NaN)
NaN == <<>>
Cell(v) == <<v>>

Range(s) == {s[i] : i \in 1..Len(s)}

\* pd.DataFrame(columns=[...]): the header-only sheet
EmptyFrame == [columns |-> ExcelColumns, rows |-> <<>>]

\* pd.DataFrame(list of dicts): the columns are the keys of the dicts
FrameOfRecords(records) ==
    [columns |-> RecordKeys,
     rows |-> [i \in 1..Len(records) |->
                  [c \in Range(RecordKeys) |-> Cell(records[i][c])]]]

\* pd.concat([df, new], ignore_index=True): union of the columns, NaN where
\* a row has no value for a column
Concat(df, new) ==
    LET extra == SelectSeq(new.columns, LAMBDA c : c \notin Range(df.columns))
        cols == df.columns \o extra
        widen(row) == [c \in Range(cols) |->
                          IF c \in DOMAIN row THEN row[c] ELSE NaN]
    IN [columns |-> cols,
        rows |-> [i \in 1..(Len(df.rows) + Len(new.rows)) |->
                     IF i <= Len(df.rows) THEN widen(df.rows[i])
                     ELSE widen(new.rows[i - Len(df.rows)])]]

\* df[[...]]: KeyError unless every asked column is a column of df
HasColumns(df, cols) == Range(cols) \subseteq Range(df.columns)

----------------------------------------------------------------------------
(* Settings (src/config.py) and results *)

(* config.get_setting(key) returns what the user has configured, and the   *)
(* settings dialog can change a setting between any two calls of the       *)
(* session (Config.set_setting).  An operation therefore draws the value   *)
(* of each setting it reads as an input, at the place where it reads it;   *)
(* Unread stands for a setting the call did not read.                      *)
DuplicateHandlings == {"ask", "auto_increment", "replace"}
Unread == "unread"
\* get_setting("use_trash"), get_setting("auto_empty_trash")
Flags == {"on", "off"}
\* get_setting("undo_delete_limit", 10): this one setting is kept fixed
\* through a behaviour, as the variable undo_delete_limit
UndoLimits == 1..MaxUndoLimit

\* an optional value is <<>> (None) or <<v>>
None == <<>>
Some(v) == <<v>>

\* the dict an operation returns; status "raised" stands for an exception
\* that leaves the operation uncaught
Result(status, message, data, save_error) ==
    [status |-> status, message |-> message, data |-> data,
     save_error |-> save_error]

\* what the last call was: its name, the value of the setting it read (the
\* last of its arguments), the failure injected into it, the branch it took
\* and the status, message and save_error of the dict it returned, with the
\* other keys of a 'duplicate' dict as data.  Its other arguments and the
\* record it returned are not kept: the record is the one the call added
\* to, changed in or took out of photos.
Call(op, args, io, branch, result) ==
    [op |-> op, io |-> io, branch |-> branch, status |-> result.status,
     message |-> result.message, save_error |-> result.save_error,
     setting |-> IF args = <<>> THEN Unread ELSE args[Len(args)],
     data |-> IF result.status = "duplicate" THEN result.data ELSE None]

----------------------------------------------------------------------------
(* Helpers of PhotoSession *)

\* the while loop of _handle_duplicate_check: first free name_<counter>.jpg
RECURSIVE NextFreePath(_, _, _, _, _)
NextFreePath(disk, path, name, folder, counter) ==
    IF ~Exists(disk, path) THEN path
    ELSE NextFreePath(disk, Join(folder, JpgNameCounter(name, counter)),
                      name, folder, counter + 1)

\* a duplicate check whose counter starts at 1, as the loop of _move_to_trash
_handle_duplicate_check_from_1(disk, handling, path, name, folder) ==
    IF handling = "auto_increment"
    THEN [status |-> "new_path", path |-> NextFreePath(disk, path, name, folder, 1)]
    ELSE IF handling = "replace"
    THEN [status |-> "replace", path |-> path]
    ELSE [status |-> "ask", path |-> path]

\* a duplicate check that replaces where it should ask
_handle_duplicate_check_never_asks(disk, handling, path, name, folder) ==
    IF handling = "auto_increment"
    THEN [status |-> "new_path", path |-> NextFreePath(disk, path, name, folder, 2)]
    ELSE [status |-> "replace", path |-> path]

_handle_duplicate_check(disk, handling, path, name, folder) ==
    IF handling = "auto_increment"
    THEN [status |-> "new_path", path |-> NextFreePath(disk, path, name, folder, 2)]
    ELSE IF handling = "replace"
    THEN [status |-> "replace", path |-> path]
    ELSE [status |-> "ask", path |-> path]

\* the while loop of _move_to_trash: first free <stem>_<counter><suffix>
RECURSIVE FreeTrashPath(_, _, _, _)
FreeTrashPath(disk, trash_path, file_path, counter) ==
    IF ~Exists(disk, trash_path) THEN trash_path
    ELSE FreeTrashPath(disk,
            Join(TrashFolder, [stem |-> Append(file_path.name.stem, counter),
                               suffix |-> file_path.name.suffix]),
            file_path, counter + 1)

\* returns the new disk and the trash path; when shutil.move failed it
\* returns None, which the callers turn into the path "None" with str()
_move_to_trash(disk, file_path, fails) ==
    LET trash_path == FreeTrashPath(disk, Join(TrashFolder, file_path.name),
                                    file_path, 1)
    IN IF fails \/ ~Exists(disk, file_path)
       THEN [disk |-> disk, ok |-> FALSE, trash_path |-> NonePath]
       ELSE [disk |-> ShutilMove(disk, file_path, trash_path),
             ok |-> TRUE, trash_path |-> trash_path]

\* an _init_excel that does not write the file
_init_excel_skipped(file, io) == [file |-> file, ok |-> TRUE]

_init_excel(file, io) ==
    IF io \in {"excel_locked", "excel_io"}
    THEN [file |-> file, ok |-> FALSE]
    ELSE [file |-> EmptyFrame, ok |-> TRUE]

\* an _append_to_excel that swallows its failure
_append_to_excel_silent(file, photo_data, io) ==
    IF io \in {"excel_locked", "excel_io"}
    THEN [file |-> file, status |-> "success", error |-> ""]
    ELSE [file |-> Concat(file, FrameOfRecords(<<photo_data>>)),
          status |-> "success", error |-> ""]

\* error is "" where the code returns no 'error' key (save_error is None)
_append_to_excel(file, photo_data, io) ==
    IF io = "excel_locked"
    THEN [file |-> file, status |-> "error",
          error |-> "Excel file is open. Please close it to save data."]
    ELSE IF io = "excel_io"
    THEN [file |-> file, status |-> "error", error |-> "Error saving to Excel"]
    ELSE [file |-> Concat(file, FrameOfRecords(<<photo_data>>)),
          status |-> "success", error |-> ""]

\* the selection df[[...]] raises KeyError when the columns are missing;
\* every exception is swallowed and False returned
_rewrite_excel(file, records, io) ==
    IF records # <<>> /\ ~HasColumns(FrameOfRecords(records), ExcelColumns)
    THEN [file |-> file, ok |-> FALSE]
    ELSE IF io \in {"excel_locked", "excel_io"}
    THEN [file |-> file, ok |-> FALSE]
    ELSE [file |-> IF records # <<>>
                   THEN [columns |-> ExcelColumns,
                         rows |-> [i \in 1..Len(records) |->
                             [c \in Range(ExcelColumns) |->
                                 FrameOfRecords(records).rows[i][c]]]]
                   ELSE EmptyFrame,
          ok |-> TRUE]

\* a list.insert that forgets the index and puts the element first
ListInsertAtFront(s, index, x) == <<x>> \o s

\* a list.insert that forgets the index and appends
ListInsertAtEnd(s, index, x) == Append(s, x)

\* list.insert(index, x) for index >= 0: past the end it appends
ListInsert(s, index, x) ==
    LET k == IF index > Len(s) THEN Len(s) ELSE index
    IN SubSeq(s, 1, k) \o <<x>> \o SubSeq(s, k + 1, Len(s))

\* list.pop(index) leaves this list behind
ListRemove(s, index) == SubSeq(s, 1, index) \o SubSeq(s, index + 2, Len(s))

----------------------------------------------------------------------------
(* State *)

VARIABLES
    photos,          \* self.photos
    deleted_photos,  \* self.deleted_photos, the undo stack
    fs,              \* the files on disk: path -> content
    dirs,            \* the subfolders that exist under the project folder
    session_file,    \* config.session_file, the Excel sheet
    active_session,  \* config.active_session_file, None when absent
    report,          \* the file at the output_path of export_report
    session_photos,  \* ShotLedgerApp.session_photos (src/main.py)
    log_threads,     \* the threads started by ShotLedgerApp.capture_photo
    undo_delete_limit, \* config.settings["undo_delete_limit"]
    clock,           \* number of images captured so far
    faults,          \* number of failures injected so far
    last,            \* the last call and its result
    hist             \* the run of delete_photo and undo_delete calls so far

vars == <<photos, deleted_photos, fs, dirs, session_file, active_session,
          report, session_photos, log_threads,
          undo_delete_limit, clock, faults, last, hist>>

(* hist observes the calls; no operation reads it.  delete holds the state *)
(* a successful delete_photo started from, until a call other than the     *)
(* undo_delete that follows it at once; deletes counts the successful      *)
(* delete_photo calls made in a row and undos the undo_delete calls made   *)
(* in a row after them (counted up to undo_delete_limit + 2).  run holds   *)
(* the value of photos before each delete_photo of the current run of      *)
(* successful deletes that moved a file to the trash without evicting, and *)
(* undone counts the successful ones among the undo_delete calls made in a *)
(* row after it; run is dropped once more undos than deletes were called.  *)
NoHist == [delete |-> None, deletes |-> 0, undos |-> 0, run |-> <<>>,
           undone |-> 0]

HistOfDelete(index, branch, io) ==
    [delete |-> Some([photos |-> photos, fs |-> fs,
                      deleted_photos |-> deleted_photos, index |-> index,
                      branch |-> branch, io |-> io]),
     deletes |-> IF last.op = "delete_photo" /\ last.status = "success"
                 THEN hist.deletes + 1 ELSE 1,
     undos |-> 0,
     run |-> IF branch # "trash" THEN <<>>
             ELSE IF last.op = "delete_photo"
             THEN Append(hist.run, photos)
             ELSE <<photos>>,
     undone |-> 0]

\* the undo_delete restores a record unless the stack is empty, the trashed
\* file is missing or the move back fails
HistOfUndo(io) ==
    LET restores == /\ deleted_photos # <<>>
                    /\ Exists(fs, deleted_photos[Len(deleted_photos)].trash_path)
                    /\ io = "none"
        walks == hist.undos < Len(hist.run)
    IN [delete |-> IF last.op = "delete_photo" THEN hist.delete ELSE None,
        deletes |-> hist.deletes,
        undos |-> IF hist.undos > undo_delete_limit THEN hist.undos
                  ELSE hist.undos + 1,
        run |-> IF walks THEN hist.run ELSE <<>>,
        undone |-> IF ~walks THEN 0
                   ELSE IF restores THEN hist.undone + 1 ELSE hist.undone]

\* after __init__, set_project_folder and load_from_excel with no session file
Init ==
    /\ photos = <<>>
    /\ deleted_photos = <<>>
    /\ fs = <<>>
    /\ dirs = {}
    /\ session_file = EmptyFrame
    /\ active_session = None
    /\ report = None
    /\ session_photos = <<>>
    /\ log_threads = <<>>
    /\ undo_delete_limit \in UndoLimits
    /\ clock = 0
    /\ faults = 0
    /\ last = Call("init", <<>>, "none", "", Result("", "", None, ""))
    /\ hist = NoHist

\* a call of the session: it may have one failure injected, and it leaves
\* the setting undo_delete_limit and the state of ShotLedgerApp alone
Inject(io) ==
    /\ io # "none" => faults < MaxFaults
    /\ faults' = IF io = "none" THEN faults ELSE faults + 1
    /\ UNCHANGED <<undo_delete_limit, session_photos, log_threads>>

\* last_activity, the time of the call, is left out of the breadcrumb
_save_active_session(records) ==
    Some([project_folder |-> ProjectFolder, photo_count |-> Len(records)])

----------------------------------------------------------------------------
(* add_photo *)

AddPhotoIO ==
    {"none", "mkdir", "trash_move", "write", "excel_locked", "excel_io"}

AddPhoto(subfolder, name, handling, io) ==
    LET timestamp == clock + 1
        captured_frame == clock + 1
        subfolder_path == SubfolderPath(subfolder)
        target == Join(subfolder_path, JpgName(name))
        dup == IF Exists(fs, target)
               THEN _handle_duplicate_check(fs, handling, target, name,
                                            subfolder_path)
               ELSE [status |-> "free", path |-> target]
        file_path == dup.path
        filename == file_path.name
        trashed == IF dup.status = "replace"
                   THEN _move_to_trash(fs, file_path, io = "trash_move")
                   ELSE [disk |-> fs, ok |-> TRUE, trash_path |-> NonePath]
        photo_data == [timestamp |-> timestamp, subfolder |-> subfolder,
                       name |-> name, filename |-> filename,
                       file_path |-> file_path]
        save_result == _append_to_excel(session_file, photo_data, io)
    IN
    /\ clock < MaxAdds
    /\ Inject(io)
    /\ hist' = NoHist
    /\ UNCHANGED report
    /\ handling = Unread <=> (io = "mkdir" \/ ~Exists(fs, target))
    /\ io = "trash_move" => dup.status = "replace"
    /\ io \in {"write", "excel_locked", "excel_io"} => dup.status # "ask"
    /\ IF io = "mkdir"
       THEN /\ last' = Call("add_photo", <<subfolder, name, handling>>, io, "mkdir",
                            Result("error", "Cannot create subfolder", None, ""))
            /\ UNCHANGED <<photos, deleted_photos, fs, dirs, session_file,
                           active_session, clock>>
       ELSE IF dup.status = "ask"
       THEN /\ last' = Call("add_photo", <<subfolder, name, handling>>, io, "ask",
                            Result("duplicate", "",
                                   Some([name |-> name, subfolder |-> subfolder,
                                         existing_path |-> target,
                                         frame |-> captured_frame]), ""))
            /\ dirs' = dirs \cup {subfolder_path}
            /\ UNCHANGED <<photos, deleted_photos, fs, session_file,
                           active_session, clock>>
       ELSE IF io = "write"
       THEN /\ last' = Call("add_photo", <<subfolder, name, handling>>, io, dup.status,
                            Result("error", "Cannot save photo", None, ""))
            /\ fs' = trashed.disk
            /\ dirs' = dirs \cup {subfolder_path}
            /\ UNCHANGED <<photos, deleted_photos, session_file,
                           active_session, clock>>
       ELSE /\ fs' = WriteFile(trashed.disk, file_path, captured_frame)
            /\ dirs' = dirs \cup {subfolder_path}
            /\ photos' = Append(photos, photo_data)
            /\ session_file' = save_result.file
            /\ active_session' = _save_active_session(photos')
            /\ clock' = clock + 1
            /\ last' = Call("add_photo", <<subfolder, name, handling>>, io, dup.status,
                            Result("success", "", Some(photo_data), save_result.error))
            /\ UNCHANGED deleted_photos

----------------------------------------------------------------------------
(* update_photo *)

UpdatePhotoIO == {"none", "mkdir", "trash_move", "move"}

UpdatePhoto(index, new_subfolder, new_name, handling, io) ==
    LET valid == 0 <= index /\ index < Len(photos)
        old_data == photos[index + 1]
        old_path == old_data.file_path
        new_subfolder_path == SubfolderPath(new_subfolder)
        target == Join(new_subfolder_path, JpgName(new_name))
        collides == old_path # target /\ Exists(fs, target)
        dup == IF collides
               THEN _handle_duplicate_check(fs, handling, target, new_name,
                                            new_subfolder_path)
               ELSE [status |-> "free", path |-> target]
        new_path == dup.path
        new_filename == new_path.name
        trashed == IF dup.status = "replace"
                   THEN _move_to_trash(fs, new_path, io = "trash_move")
                   ELSE [disk |-> fs, ok |-> TRUE, trash_path |-> NonePath]
        new_data == [old_data EXCEPT !.subfolder = new_subfolder,
                                     !.name = new_name,
                                     !.filename = new_filename,
                                     !.file_path = new_path]
        updated == [photos EXCEPT ![index + 1] = new_data]
        args == <<index, new_subfolder, new_name, handling>>
    IN
    /\ Inject(io)
    /\ hist' = NoHist
    /\ UNCHANGED <<deleted_photos, active_session, report, clock>>
    /\ IF ~valid
       THEN /\ io = "none" /\ handling = Unread
            /\ last' = Call("update_photo", args, io, "invalid",
                            Result("error", "Invalid photo index", None, ""))
            /\ UNCHANGED <<photos, fs, dirs, session_file>>
       ELSE IF ~Exists(fs, old_path)
       THEN /\ io = "none" /\ handling = Unread
            /\ last' = Call("update_photo", args, io, "missing",
                            Result("error", "Photo file not found", None, ""))
            /\ UNCHANGED <<photos, fs, dirs, session_file>>
       ELSE IF io = "mkdir"
       THEN /\ handling = Unread
            /\ last' = Call("update_photo", args, io, "mkdir",
                            Result("error", "Cannot create subfolder", None, ""))
            /\ UNCHANGED <<photos, fs, dirs, session_file>>
       ELSE /\ handling = Unread <=> ~collides
            /\ io = "trash_move" => dup.status = "replace"
            /\ io = "move" => old_path # target /\ dup.status # "ask"
            /\ dirs' = dirs \cup {new_subfolder_path}
            /\ IF dup.status = "ask"
               THEN /\ last' = Call("update_photo", args, io, "ask",
                                    Result("duplicate", "",
                                           Some([existing_path |-> target]), ""))
                    /\ UNCHANGED <<photos, fs, session_file>>
               ELSE IF io = "move"
               THEN /\ last' = Call("update_photo", args, io, dup.status,
                                    Result("error", "Cannot move file", None, ""))
                    /\ fs' = trashed.disk
                    /\ UNCHANGED <<photos, session_file>>
               ELSE /\ fs' = IF old_path # target
                             THEN ShutilMove(trashed.disk, old_path, new_path)
                             ELSE fs
                    /\ photos' = updated
                    /\ session_file' = _rewrite_excel(session_file, updated, io).file
                    /\ last' = Call("update_photo", args, io,
                                    IF old_path = target THEN "same" ELSE dup.status,
                                    Result("success", "", Some(new_data), ""))

----------------------------------------------------------------------------
(* delete_photo *)

\* an undo history without a limit
EvictsNever(stack, undo_limit) == FALSE

\* if len(self.deleted_photos) > undo_limit
Evicts(stack, undo_limit) == Len(stack) > undo_limit

\* an eviction that leaves the trashed file behind
PurgeOldestSkipped(disk, oldest) == disk

\* if oldest_trash.exists(): oldest_trash.unlink()
PurgeOldest(disk, oldest) ==
    IF Exists(disk, oldest.trash_path) THEN Unlink(disk, oldest.trash_path)
    ELSE disk

DeletePhotoIO == {"none", "trash_move", "unlink", "excel_locked", "excel_io"}

\* _rewrite_excel gets as far as df.to_excel
ReachesWrite(records) ==
    records = <<>> \/ HasColumns(FrameOfRecords(records), ExcelColumns)

DeletePhoto(index, use_trash, io) ==
    LET valid == 0 <= index /\ index < Len(photos)
        photo == photos[index + 1]
        file_path == photo.file_path
        present == Exists(fs, file_path)
        trashed == _move_to_trash(fs, file_path, io = "trash_move")
        entry == [original_path |-> file_path,
                  trash_path |-> trashed.trash_path,
                  data |-> photo,
                  index |-> index]
        pushed == Append(deleted_photos, entry)
        evicts == Evicts(pushed, undo_delete_limit)
        oldest == Head(pushed)
        purges == evicts /\ Exists(trashed.disk, oldest.trash_path)
        remaining == ListRemove(photos, index)
        branch == IF use_trash = "on"
                  THEN IF evicts THEN "evict" ELSE "trash"
                  ELSE IF use_trash = "off" THEN "permanent" ELSE "nofile"
        args == <<index, use_trash>>
    IN
    /\ Inject(io)
    /\ UNCHANGED <<dirs, active_session, report, clock>>
    /\ IF ~valid
       THEN /\ io = "none" /\ use_trash = Unread
            /\ last' = Call("delete_photo", args, io, "invalid",
                            Result("error", "Invalid photo index", None, ""))
            /\ hist' = NoHist
            /\ UNCHANGED <<photos, deleted_photos, fs, session_file>>
       ELSE /\ use_trash = Unread <=> ~present
            /\ io = "trash_move" => use_trash = "on"
            /\ io = "unlink" => use_trash = "off" \/ (use_trash = "on" /\ purges)
            /\ io \in {"excel_locked", "excel_io"} => ReachesWrite(remaining)
            /\ IF use_trash = "on" /\ purges /\ io = "unlink"
               THEN \* oldest_trash.unlink() raises outside any try
                    /\ fs' = trashed.disk
                    /\ deleted_photos' = Tail(pushed)
                    /\ last' = Call("delete_photo", args, io, "evict",
                                    Result("raised", "unlink", None, ""))
                    /\ hist' = NoHist
                    /\ UNCHANGED <<photos, session_file>>
               ELSE IF use_trash = "off" /\ io = "unlink"
               THEN /\ last' = Call("delete_photo", args, io, "permanent",
                                    Result("error", "Cannot delete file", None, ""))
                    /\ hist' = NoHist
                    /\ UNCHANGED <<photos, deleted_photos, fs, session_file>>
               ELSE /\ fs' = IF use_trash = "on"
                             THEN IF evicts
                                  THEN PurgeOldest(trashed.disk, oldest)
                                  ELSE trashed.disk
                             ELSE IF use_trash = "off"
                             THEN Unlink(fs, file_path)
                             ELSE fs
                    /\ deleted_photos' = IF use_trash = "on"
                                         THEN IF evicts THEN Tail(pushed) ELSE pushed
                                         ELSE deleted_photos
                    /\ photos' = remaining
                    /\ session_file' = _rewrite_excel(session_file, remaining, io).file
                    /\ last' = Call("delete_photo", args, io, branch,
                                    Result("success", "", Some(photo), ""))
                    /\ hist' = HistOfDelete(index, branch, io)

----------------------------------------------------------------------------
(* undo_delete *)

UndoDeleteIO == {"none", "move"}

\* an undo_delete that puts the record back before it restores the file
UndoDeleteRecordFirst(io) ==
    LET deleted == deleted_photos[Len(deleted_photos)]
        popped == SubSeq(deleted_photos, 1, Len(deleted_photos) - 1)
        trash_path == deleted.trash_path
        original_path == deleted.original_path
        restored == ListInsert(photos, deleted.index, deleted.data)
    IN
    /\ Inject(io)
    /\ hist' = HistOfUndo(io)
    /\ UNCHANGED <<active_session, report, clock>>
    /\ IF deleted_photos = <<>>
       THEN /\ io = "none"
            /\ last' = Call("undo_delete", <<>>, io, "empty",
                            Result("error", "No deletions to undo", None, ""))
            /\ UNCHANGED <<photos, deleted_photos, fs, dirs, session_file>>
       ELSE /\ deleted_photos' = popped
            /\ photos' = restored
            /\ IF ~Exists(fs, trash_path)
               THEN /\ io = "none"
                    /\ last' = Call("undo_delete", <<>>, io, "missing",
                                    Result("error", "Deleted file not found in trash",
                                           None, ""))
                    /\ UNCHANGED <<fs, dirs, session_file>>
               ELSE IF io = "move"
               THEN /\ last' = Call("undo_delete", <<>>, io, "move",
                                    Result("error", "Cannot restore file", None, ""))
                    /\ UNCHANGED <<fs, dirs, session_file>>
               ELSE /\ dirs' = dirs \cup {original_path.parent}
                    /\ fs' = ShutilMove(fs, trash_path, original_path)
                    /\ session_file' = _rewrite_excel(session_file, restored, io).file
                    /\ last' = Call("undo_delete", <<>>, io, "restore",
                                    Result("success", "", Some(deleted.data), ""))

UndoDelete(io) ==
    LET deleted == deleted_photos[Len(deleted_photos)]
        popped == SubSeq(deleted_photos, 1, Len(deleted_photos) - 1)
        trash_path == deleted.trash_path
        original_path == deleted.original_path
        restored == ListInsert(photos, deleted.index, deleted.data)
    IN
    /\ Inject(io)
    /\ hist' = HistOfUndo(io)
    /\ UNCHANGED <<active_session, report, clock>>
    /\ IF deleted_photos = <<>>
       THEN /\ io = "none"
            /\ last' = Call("undo_delete", <<>>, io, "empty",
                            Result("error", "No deletions to undo", None, ""))
            /\ UNCHANGED <<photos, deleted_photos, fs, dirs, session_file>>
       ELSE /\ deleted_photos' = popped
            /\ IF ~Exists(fs, trash_path)
               THEN /\ io = "none"
                    /\ last' = Call("undo_delete", <<>>, io, "missing",
                                    Result("error", "Deleted file not found in trash",
                                           None, ""))
                    /\ UNCHANGED <<photos, fs, dirs, session_file>>
               ELSE IF io = "move"
               THEN /\ last' = Call("undo_delete", <<>>, io, "move",
                                    Result("error", "Cannot restore file", None, ""))
                    /\ UNCHANGED <<photos, fs, dirs, session_file>>
               ELSE /\ dirs' = dirs \cup {original_path.parent}
                    /\ fs' = ShutilMove(fs, trash_path, original_path)
                    /\ photos' = restored
                    /\ session_file' = _rewrite_excel(session_file, restored, io).file
                    /\ last' = Call("undo_delete", <<>>, io, "restore",
                                    Result("success", "", Some(deleted.data), ""))

----------------------------------------------------------------------------
(* end_session *)

EndSessionIO == {"none", "excel_locked", "excel_io", "unlink"}

\* Config.clear_active_session
clear_active_session == None

EndSession(auto_empty_trash, io) ==
    /\ Inject(io)
    /\ hist' = NoHist
    /\ io = "unlink" => auto_empty_trash = "on" /\ TrashFiles(fs) # {}
    /\ session_file' = _init_excel(session_file, io).file
    /\ \E kept \in SUBSET TrashFiles(fs) :
          \* the files whose unlink fails stay; each failure is skipped
          /\ IF auto_empty_trash = "off" THEN kept = TrashFiles(fs)
             ELSE IF io = "unlink" THEN Cardinality(kept) = 1
             ELSE kept = {}
          /\ fs' = [p \in ProjectFiles(fs) \cup kept |-> fs[p]]
    /\ photos' = <<>>
    /\ deleted_photos' = <<>>
    /\ active_session' = clear_active_session
    /\ last' = Call("end_session", <<auto_empty_trash>>, io,
                    IF auto_empty_trash = "off" THEN "keep"
                    ELSE IF TrashFiles(fs) = {} THEN "empty" ELSE "purge",
                    Result("success", "", None, ""))
    /\ UNCHANGED <<dirs, report, clock>>

----------------------------------------------------------------------------
(* export_report *)

ExportReportIO == {"none", "excel_locked", "excel_io"}

\* df[['Timestamp', 'Subfolder', 'Name', 'Filename', 'File Path']]
SelectColumns(df, cols) ==
    [columns |-> cols,
     rows |-> [i \in 1..Len(df.rows) |-> [c \in Range(cols) |-> df.rows[i][c]]]]

\* an export_report that writes the header-only sheet for an empty session
ExportReportOfNothing(io) ==
    LET df == FrameOfRecords(photos)
        selects == HasColumns(df, ExcelColumns)
    IN
    /\ Inject(io)
    /\ hist' = NoHist
    /\ io # "none" => photos # <<>> /\ selects
    /\ UNCHANGED <<photos, deleted_photos, fs, dirs, session_file,
                   active_session, clock>>
    /\ IF photos # <<>> /\ (~selects \/ io # "none")
       THEN /\ last' = Call("export_report", <<>>, io, "failed",
                            Result("error", "Export failed", None, ""))
            /\ UNCHANGED report
       ELSE /\ report' = Some(IF photos = <<>> THEN EmptyFrame
                              ELSE SelectColumns(df, ExcelColumns))
            /\ last' = Call("export_report", <<>>, io, "written",
                            Result("success", "", Some(Len(photos)), ""))

ExportReport(io) ==
    LET df == FrameOfRecords(photos)
        selects == HasColumns(df, ExcelColumns)
    IN
    /\ Inject(io)
    /\ hist' = NoHist
    /\ io # "none" => photos # <<>> /\ selects
    /\ UNCHANGED <<photos, deleted_photos, fs, dirs, session_file,
                   active_session, clock>>
    /\ IF photos = <<>>
       THEN /\ last' = Call("export_report", <<>>, io, "empty",
                            Result("error", "No photos to export", None, ""))
            /\ UNCHANGED report
       ELSE IF ~selects \/ io # "none"
       THEN \* KeyError of the selection, or the failure of df.to_excel
            /\ last' = Call("export_report", <<>>, io, "failed",
                            Result("error", "Export failed", None, ""))
            /\ UNCHANGED report
       ELSE /\ report' = Some(SelectColumns(df, ExcelColumns))
            /\ last' = Call("export_report", <<>>, io, "written",
                            Result("success", "", Some(Len(photos)), ""))

----------------------------------------------------------------------------
(* load_from_excel, as the application calls it: on a new PhotoSession     *)
(* (src/ui/main_window.py: PhotoSession(config), set_project_folder,       *)
(* load_from_excel) over the session file the last run left behind         *)

LoadFromExcelIO == {"none", "excel_io"}

\* the record built from one row of the sheet.  A field read from the sheet
\* is kept as the cell it was read from: <<v>> for the value v and <<>> for
\* the NaN of an empty cell.
RecordOfRow(row) ==
    [timestamp |-> row["Timestamp"],
     subfolder |-> row["Subfolder"],
     name |-> row["Name"],
     filename |-> row["Filename"],
     file_path |-> row["File Path"]]

\* the session file always exists here, so the branch of a missing file is
\* not taken; a failing read, or a row without the columns, ends in
\* _init_excel
LoadFromExcel(io) ==
    LET df == session_file
        readable == io = "none" /\ (df.rows = <<>> \/ HasColumns(df, ExcelColumns))
    IN
    /\ Inject(io)
    /\ hist' = NoHist
    /\ deleted_photos' = <<>>
    /\ UNCHANGED <<fs, dirs, active_session, report, clock>>
    /\ IF readable
       THEN /\ photos' = [i \in 1..Len(df.rows) |-> RecordOfRow(df.rows[i])]
            /\ last' = Call("load_from_excel", <<>>, io, "loaded",
                            Result("returned", "", None, ""))
            /\ UNCHANGED session_file
       ELSE /\ photos' = <<>>
            /\ session_file' = _init_excel(session_file, "none").file
            /\ last' = Call("load_from_excel", <<>>, io, "reset",
                            Result("returned", "", None, ""))

----------------------------------------------------------------------------
Next ==
    \/ \E subfolder \in Subfolders, name \in Names,
          handling \in DuplicateHandlings \cup {Unread}, io \in AddPhotoIO :
          AddPhoto(subfolder, name, handling, io)
    \/ \E index \in -1..Len(photos), new_subfolder \in Subfolders,
          new_name \in Names, handling \in DuplicateHandlings \cup {Unread},
          io \in UpdatePhotoIO :
          UpdatePhoto(index, new_subfolder, new_name, handling, io)
    \/ \E index \in -1..Len(photos), use_trash \in Flags \cup {Unread},
          io \in DeletePhotoIO :
          DeletePhoto(index, use_trash, io)
    \/ \E io \in UndoDeleteIO : UndoDelete(io)
    \/ \E auto_empty_trash \in Flags, io \in EndSessionIO :
          EndSession(auto_empty_trash, io)
    \/ \E io \in ExportReportIO : ExportReport(io)

Spec == Init /\ [][Next]_vars

(* The session across restarts of the application: photos are added, the   *)
(* session is exported or ended, and a new PhotoSession reloads the sheet.  *)
(* The records of a reloaded session hold cells, so the operations that     *)
(* read the fields of the records are left to Spec.                         *)
NextReload ==
    \/ \E subfolder \in Subfolders, name \in Names,
          handling \in DuplicateHandlings \cup {Unread}, io \in AddPhotoIO :
          AddPhoto(subfolder, name, handling, io)
    \/ \E auto_empty_trash \in Flags, io \in EndSessionIO :
          EndSession(auto_empty_trash, io)
    \/ \E io \in ExportReportIO : ExportReport(io)
    \/ \E io \in LoadFromExcelIO : LoadFromExcel(io)

SpecReload == Init /\ [][NextReload]_vars

----------------------------------------------------------------------------
(* ShotLedgerApp (src/main.py): the window that captures photos itself and *)
(* logs each one to the session file from a thread of its own              *)

AppColumns == <<"Timestamp", "Subfolder", "Name", "Filename", "Path">>

\* the frame _log_excel and _rebuild_excel build from photo_info dicts
AppFrame(infos) ==
    [columns |-> AppColumns,
     rows |-> [i \in 1..Len(infos) |->
                  [c \in Range(AppColumns) |->
                      IF c = "Timestamp" THEN Cell(infos[i].timestamp)
                      ELSE IF c = "Subfolder" THEN Cell(infos[i].division)
                      ELSE IF c = "Name" THEN Cell(infos[i].name)
                      ELSE IF c = "Filename" THEN Cell(infos[i].path.name)
                      ELSE Cell(infos[i].path)]]]

\* the variables of PhotoSession that ShotLedgerApp never touches
session_vars == <<photos, deleted_photos, active_session, report,
                  undo_delete_limit, faults, last, hist>>

\* after ShotLedgerApp.__init__: _init_session has created the session file
InitApp ==
    /\ photos = <<>>
    /\ deleted_photos = <<>>
    /\ fs = <<>>
    /\ dirs = {}
    /\ session_file = [columns |-> AppColumns, rows |-> <<>>]
    /\ active_session = None
    /\ report = None
    /\ session_photos = <<>>
    /\ log_threads = <<>>
    /\ undo_delete_limit \in UndoLimits
    /\ clock = 0
    /\ faults = 0
    /\ last = Call("init", <<>>, "none", "", Result("", "", None, ""))
    /\ hist = NoHist

\* capture_photo: the file is written, the photo joins session_photos and
\* a thread is started on _log_excel
CapturePhoto(subfolder, name) ==
    LET folder == SubfolderPath(subfolder)
        filepath == NextFreePath(fs, Join(folder, JpgName(name)), name, folder, 1)
        frame == clock + 1
        photo_info == [path |-> filepath, division |-> subfolder,
                       name |-> name, timestamp |-> clock + 1]
    IN
    /\ clock < MaxAdds
    /\ dirs' = dirs \cup {folder}
    /\ fs' = WriteFile(fs, filepath, frame)
    /\ session_photos' = Append(session_photos, photo_info)
    /\ log_threads' = Append(log_threads,
                             [pc |-> "read", info |-> photo_info, df |-> None])
    /\ clock' = clock + 1
    /\ UNCHANGED session_file
    /\ UNCHANGED session_vars

\* _log_excel, first half: df = pd.read_excel(session_file)
LogExcelRead(t) ==
    /\ log_threads[t].pc = "read"
    /\ log_threads' = [log_threads EXCEPT ![t].pc = "write",
                                          ![t].df = Some(session_file)]
    /\ UNCHANGED <<fs, dirs, session_file, session_photos, clock>>
    /\ UNCHANGED session_vars

\* _log_excel, second half: concat and df.to_excel(session_file)
LogExcelWrite(t) ==
    /\ log_threads[t].pc = "write"
    /\ session_file' = Concat(log_threads[t].df[1],
                              AppFrame(<<log_threads[t].info>>))
    /\ log_threads' = [log_threads EXCEPT ![t].pc = "done", ![t].df = None]
    /\ UNCHANGED <<fs, dirs, session_photos, clock>>
    /\ UNCHANGED session_vars

\* open_review_mode with PreviewWindow.on_delete: the file is removed, the
\* photo leaves session_photos and _rebuild_excel writes the sheet anew
ReviewDelete(index) ==
    LET file_path == session_photos[index + 1].path
        remaining == ListRemove(session_photos, index)
    IN
    /\ fs' = IF Exists(fs, file_path) THEN Unlink(fs, file_path) ELSE fs
    /\ session_photos' = remaining
    /\ session_file' = AppFrame(remaining)
    /\ UNCHANGED <<dirs, log_threads, clock>>
    /\ UNCHANGED session_vars

NextApp ==
    \/ \E subfolder \in Subfolders, name \in Names :
          CapturePhoto(subfolder, name)
    \/ \E t \in 1..Len(log_threads) : LogExcelRead(t)
    \/ \E t \in 1..Len(log_threads) : LogExcelWrite(t)
    \/ \E index \in 0..(Len(session_photos) - 1) : ReviewDelete(index)

SpecApp == InitApp /\ [][NextApp]_vars

----------------------------------------------------------------------------
(* Properties *)

\* the call before the last one was a delete_photo that moved the file of
\* the record to the trash, and the last call is the undo_delete after it
DeleteThenUndo ==
    /\ last.op = "undo_delete"
    /\ hist.delete # None
    /\ hist.delete[1].branch \in {"trash", "evict"}

\* C1: delete_photo(i) of a record whose file exists, with use_trash on,
\* followed at once by undo_delete: the undo succeeds when the move to the
\* trash and the move back both worked, and a successful undo leaves photos
\* equal to the sequence before the delete, the file back at its file_path
\* with its content, and no file in the trash that was not there before.
C1_DeleteUndoRestores ==
    DeleteThenUndo =>
        LET pre == hist.delete[1]
            rec == pre.photos[pre.index + 1]
        IN /\ (pre.io # "trash_move" /\ last.io = "none")
                  => last.status = "success"
           /\ last.status = "success" =>
                  /\ photos = pre.photos
                  /\ Exists(fs, rec.file_path)
                  /\ fs[rec.file_path] = pre.fs[rec.file_path]
                  /\ TrashFiles(fs) \subseteq TrashFiles(pre.fs)

\* a delete at index 0 of a list of two records has been undone
C1_Witness ==
    /\ DeleteThenUndo
    /\ last.status = "success"
    /\ hist.delete[1].index = 0
    /\ Len(hist.delete[1].photos) = 2
    /\ photos = hist.delete[1].photos

UniquePairs(records) ==
    \A i, j \in 1..Len(records) :
        i # j => <<records[i].subfolder, records[i].name>>
                     # <<records[j].subfolder, records[j].name>>

\* the timestamp a row carries, under the column of the schema or under the
\* key of the record
RowStamp(row) ==
    IF "Timestamp" \in DOMAIN row /\ row["Timestamp"] # NaN
    THEN row["Timestamp"]
    ELSE IF "timestamp" \in DOMAIN row THEN row["timestamp"] ELSE NaN

\* C2: after add_photo calls with unique (subfolder, name) pairs and a full
\* rewrite (here the one update_photo runs when it changes nothing), the
\* sheet has as many rows as photos has records, in the same order.
C2_RewriteRowCount ==
    (/\ last.op = "update_photo" /\ last.status = "success"
     /\ last.branch = "same" /\ last.io = "none"
     /\ clock = Len(photos) /\ UniquePairs(photos))
    => /\ Len(session_file.rows) = Len(photos)
       /\ \A i \in 1..Len(photos) :
              RowStamp(session_file.rows[i]) = Cell(photos[i].timestamp)

\* the row holds the record under the five columns of the schema
RowCarries(row, rec) ==
    /\ row["Timestamp"] = Cell(rec.timestamp)
    /\ row["Subfolder"] = Cell(rec.subfolder)
    /\ row["Name"] = Cell(rec.name)
    /\ row["Filename"] = Cell(rec.filename)
    /\ row["File Path"] = Cell(rec.file_path)

\* C3: after every update_photo, delete_photo or undo_delete that returns
\* success the sheet holds one row per record of photos, in order, carrying
\* the record's Timestamp, Subfolder, Name, Filename and File Path.
C3_RewrittenFromMemory ==
    (last.op \in {"update_photo", "delete_photo", "undo_delete"}
        /\ last.status = "success")
    => /\ Len(session_file.rows) = Len(photos)
       /\ \A i \in 1..Len(photos) : RowCarries(session_file.rows[i], photos[i])

\* C4: under duplicate_handling = replace an add_photo onto an existing file
\* moves that file to the trash, and afterwards exactly one record of photos
\* has that file_path, its file holding the new image.
C4_ReplaceKeepsOneRecord ==
    [][(last'.op = "add_photo" /\ last'.status = "success"
           /\ last'.branch = "replace" /\ last'.io = "none")
       => LET rec == photos'[Len(photos')]
          IN /\ \E t \in TrashFiles(fs') \ TrashFiles(fs) :
                    fs'[t] = fs[rec.file_path]
             /\ Cardinality({i \in 1..Len(photos') :
                                photos'[i].file_path = rec.file_path}) = 1
             /\ fs'[rec.file_path] = rec.timestamp]_vars

\* C5: an add_photo that returns success without replacing a file (the path
\* was free, or the policy was auto_increment) adds one record whose file is
\* name.jpg when that path was free and otherwise name_k.jpg for the least
\* k >= 2 whose path was free; the path held no file before, every file
\* that existed is unchanged, and the new file holds the new image.
C5_AutoIncrementNames ==
    [][(last'.op = "add_photo" /\ last'.status = "success"
           /\ last'.branch \in {"free", "new_path"})
       => LET rec == photos'[Len(photos')]
              folder == SubfolderPath(rec.subfolder)
              taken(k) == Exists(fs, Join(folder, JpgNameCounter(rec.name, k)))
          IN /\ photos' = Append(photos, rec)
             /\ rec.file_path = Join(folder, rec.filename)
             /\ IF ~Exists(fs, Join(folder, JpgName(rec.name)))
                THEN rec.filename = JpgName(rec.name)
                ELSE \E k \in 2..(Cardinality(DOMAIN fs) + 2) :
                        /\ rec.filename = JpgNameCounter(rec.name, k)
                        /\ \A j \in 2..(k - 1) : taken(j)
             /\ ~Exists(fs, rec.file_path)
             /\ \A p \in DOMAIN fs : Exists(fs', p) /\ fs'[p] = fs[p]
             /\ Exists(fs', rec.file_path)
             /\ fs'[rec.file_path] = rec.timestamp]_vars

\* the second John of a subfolder was saved as John_2.jpg beside John.jpg
C5_Witness ==
    /\ last.op = "add_photo" /\ last.status = "success"
    /\ last.branch = "new_path"
    /\ Len(photos) = 2
    /\ photos[1].filename = JpgName(<<"John">>)
    /\ photos[2].filename = JpgNameCounter(<<"John">>, 2)
    /\ photos[1].subfolder = photos[2].subfolder
    /\ Exists(fs, photos[1].file_path) /\ Exists(fs, photos[2].file_path)

\* C6: the undo stack never holds more than undo_delete_limit entries, and
\* a successful delete_photo that pushes onto a full stack drops exactly its
\* oldest entry, whose trashed file is then gone.
C6_UndoStackBounded ==
    /\ Len(deleted_photos) <= undo_delete_limit
    /\ (/\ last.op = "delete_photo" /\ last.status = "success"
        /\ hist.delete[1].branch \in {"trash", "evict"}
        /\ Len(hist.delete[1].deleted_photos) >= undo_delete_limit)
       => LET pre == hist.delete[1]
              n == Len(deleted_photos)
          IN /\ n = undo_delete_limit
             /\ SubSeq(deleted_photos, 1, n - 1) = Tail(pre.deleted_photos)
             /\ deleted_photos[n].data = pre.photos[pre.index + 1]
             /\ ~Exists(fs, Head(pre.deleted_photos).trash_path)

\* a delete has evicted an entry whose file was in the trash
C6_Witness ==
    /\ last.op = "delete_photo" /\ last.status = "success"
    /\ last.branch = "evict"
    /\ Exists(hist.delete[1].fs, Head(hist.delete[1].deleted_photos).trash_path)
    /\ Len(deleted_photos) = undo_delete_limit

\* no record with this timestamp is in photos or on the undo stack
Gone(t) ==
    /\ \A i \in 1..Len(photos) : photos[i].timestamp # t
    /\ \A i \in 1..Len(deleted_photos) : deleted_photos[i].data.timestamp # t

\* C7: the call that makes undo_delete_limit + 1 undo_delete calls in a row
\* fails with 'No deletions to undo', and a record that has left both photos
\* and the undo stack (an evicted one) never comes back.
C7_UndoExhausted ==
    [][/\ hist'.undos = undo_delete_limit + 1
            => (last'.status = "error" /\ last'.message = "No deletions to undo")
       /\ \A t \in 1..clock : Gone(t) => Gone(t)']_vars

\* more than undo_delete_limit deletes in a row, then limit + 1 undos
C7_Witness ==
    /\ hist.deletes > undo_delete_limit
    /\ hist.undos = undo_delete_limit + 1
    /\ last.op = "undo_delete" /\ last.message = "No deletions to undo"
    /\ \E t \in 1..clock : Gone(t)

\* C8: an end_session whose file operations succeed returns success and
\* leaves no record, an empty undo stack, a header-only sheet and, with
\* auto_empty_trash on, an empty trash, while the files under the project
\* folder are what they were.
C8_EndSessionClears ==
    [][(last'.op = "end_session" /\ last'.io = "none")
       => /\ last'.status = "success"
          /\ photos' = <<>>
          /\ deleted_photos' = <<>>
          /\ session_file'.columns = ExcelColumns
          /\ session_file'.rows = <<>>
          /\ last'.branch # "keep" => TrashFiles(fs') = {}
          /\ ProjectFiles(fs') = ProjectFiles(fs)
          /\ \A p \in ProjectFiles(fs) : fs'[p] = fs[p]]_vars

\* a session with files in the trash and in the project folder was ended
C8_Witness ==
    /\ last.op = "end_session" /\ last.io = "none"
    /\ last.branch = "purge"
    /\ photos = <<>> /\ session_file.rows = <<>>
    /\ ProjectFiles(fs) # {}
    /\ TrashFiles(fs) = {}

\* C9: an add_photo that gets as far as the append returns success with the
\* new record last in photos and its image on disk; save_error is set
\* exactly when the append failed, and then the sheet lacks the row.
C9_AppendFailureKeepsRecord ==
    /\ (last.op = "add_photo" /\ last.io \in {"excel_locked", "excel_io"})
           => last.status = "success"
    /\ (last.op = "add_photo" /\ last.status = "success")
           => /\ Len(photos) >= 1
              /\ photos[Len(photos)].timestamp = clock
              /\ Exists(fs, photos[Len(photos)].file_path)
              /\ fs[photos[Len(photos)].file_path] = clock
              /\ last.save_error # "" <=> last.io \in {"excel_locked", "excel_io"}

\* the append failed on a locked file: the record is kept, the row is missing
C9_Witness ==
    /\ last.op = "add_photo" /\ last.io = "excel_locked"
    /\ last.status = "success" /\ last.save_error # ""
    /\ Len(photos) = 2
    /\ Len(session_file.rows) = 1

\* C10: an add_photo whose image write fails returns an error and leaves
\* photos, the sheet, the undo stack and every file as they were.
C10_WriteFailureTouchesNothing ==
    [][(last'.op = "add_photo" /\ last'.io = "write")
       => /\ last'.status = "error"
          /\ photos' = photos
          /\ session_file' = session_file
          /\ deleted_photos' = deleted_photos
          /\ fs' = fs]_vars

\* C11: an add_photo that finds its target path taken and reads the policy
\* ask returns a 'duplicate' dict with the name, the subfolder, the existing
\* path and the pending image, and leaves the files, photos, the sheet, the
\* undo stack and the breadcrumb as they were.
C11_AskReturnsDuplicate ==
    [][(last'.op = "add_photo" /\ last'.setting = "ask")
       => /\ last'.status = "duplicate"
          /\ last'.data # None
          /\ LET d == last'.data[1]
             IN /\ d.existing_path = Join(SubfolderPath(d.subfolder), JpgName(d.name))
                /\ Exists(fs, d.existing_path)
                /\ d.frame = clock + 1
          /\ fs' = fs
          /\ photos' = photos
          /\ session_file' = session_file
          /\ deleted_photos' = deleted_photos
          /\ active_session' = active_session]_vars

\* a second John of HR was turned back under ask
C11_Witness ==
    /\ last.op = "add_photo" /\ last.setting = "ask"
    /\ last.status = "duplicate"
    /\ last.data[1].subfolder = "HR"
    /\ Len(photos) = 1
    /\ Len(session_file.rows) = 1
    /\ Cardinality(DOMAIN fs) = 1

\* C12: an operation that returns an error dict leaves photos as it was,
\* and an update_photo whose move failed leaves the sheet as it was too.
C12_ErrorKeepsRecords ==
    [][(last'.status = "error"
           /\ last'.op \in {"add_photo", "update_photo", "delete_photo",
                            "undo_delete", "export_report"})
       => /\ photos' = photos
          /\ (last'.op = "update_photo" /\ last'.io = "move")
                 => session_file' = session_file]_vars

\* an update_photo of a session with records failed in its move
C12_Witness ==
    /\ last.op = "update_photo" /\ last.io = "move"
    /\ last.status = "error" /\ last.message = "Cannot move file"
    /\ Len(photos) = 2

\* C13: no two records of photos have the same file_path.
C13_UniqueFilePath ==
    \A i, j \in 1..Len(photos) :
        i # j => photos[i].file_path # photos[j].file_path

\* C14: an operation whose write of the sheet failed because the file is
\* locked says so in what it returns: the save_error or the message names
\* the open file, which no other failure does.
C14_FileLockedIndicated ==
    (last.io = "excel_locked"
        /\ last.op \in {"add_photo", "update_photo", "delete_photo",
                        "undo_delete"})
    => \/ last.save_error = "Excel file is open. Please close it to save data."
       \/ last.message = "Excel file is open. Please close it to save data."

\* C15: when the move to the trash fails, delete_photo keeps the record and
\* pushes no undo entry, and add_photo and update_photo under replace leave
\* the content of every file that existed as it was.
C15_TrashFailureRespected ==
    [][(last'.io = "trash_move")
       => /\ last'.op = "delete_photo"
                => photos' = photos /\ deleted_photos' = deleted_photos
          /\ last'.op \in {"add_photo", "update_photo"}
                => \A p \in DOMAIN fs \cap DOMAIN fs' : fs'[p] = fs[p]]_vars

\* C20: after k successful delete_photo calls in a row that each moved a
\* file to the trash without evicting, k undo_delete calls in a row walk
\* back: when the first j of them have all succeeded photos is what it was
\* before the (k - j + 1)-th delete, so after the k-th it is the sequence
\* before the first delete; and while no failure has been injected every
\* one of them succeeds.
C20_UndoWalksBack ==
    LET k == Len(hist.run)
        j == hist.undos
    IN (last.op = "undo_delete" /\ k >= 1)
       => /\ j \in 1..k
          /\ hist.undone = j => photos = hist.run[k - j + 1]
          /\ faults = 0 => (hist.undone = j /\ last.status = "success")

\* two deletes, the second of them at index 0 after one at index 1, and two
\* undos that brought both records back
C20_Witness ==
    /\ last.op = "undo_delete" /\ last.status = "success"
    /\ Len(hist.run) = 2 /\ hist.undos = 2 /\ hist.undone = 2
    /\ Len(photos) = 2
    /\ photos = hist.run[1]
    /\ Len(hist.run[2]) = 1
    /\ hist.run[2][1] = photos[1]

\* C17: export_report of a session with at least one record, with no
\* failure of the write, returns success (with the number of records as
\* count) and the destination then holds one row per record of photos, in
\* order, under the columns Timestamp, Subfolder, Name, Filename, File Path.
C17_ExportWritesRecords ==
    (last.op = "export_report" /\ last.io = "none" /\ photos # <<>>)
    => /\ last.status = "success"
       /\ report # None
       /\ report[1].columns = ExcelColumns
       /\ Len(report[1].rows) = Len(photos)
       /\ \A i \in 1..Len(photos) : RowCarries(report[1].rows[i], photos[i])

\* C18: export_report of a session without records returns the error 'No
\* photos to export', writes nothing at the destination and leaves photos,
\* the undo stack, the files, the sheet and the breadcrumb as they were.
C18_ExportOfEmptySession ==
    [][(last'.op = "export_report" /\ photos = <<>>)
       => /\ last'.status = "error"
          /\ last'.message = "No photos to export"
          /\ report' = report
          /\ photos' = photos
          /\ deleted_photos' = deleted_photos
          /\ fs' = fs
          /\ session_file' = session_file
          /\ active_session' = active_session]_vars

\* the export of a session emptied by a delete was refused
C18_Witness ==
    /\ last.op = "export_report" /\ last.status = "error"
    /\ last.message = "No photos to export"
    /\ photos = <<>>
    /\ deleted_photos # <<>>
    /\ report = None

\* C19: when every photo so far was added by a successful add_photo that
\* also saved its row, a new session that loads the sheet has as many
\* records as photos had, in the same order, each with the timestamp,
\* subfolder, name, filename and file_path of the record it was saved from.
C19_LoadRoundTrip ==
    [][(/\ last'.op = "load_from_excel" /\ last'.io = "none"
        /\ last.op = "add_photo" /\ last.status = "success"
        /\ faults = 0 /\ Len(photos) = clock
        /\ Len(session_file.rows) = clock)
       => /\ Len(photos') = Len(photos)
          /\ \A i \in 1..Len(photos) :
                /\ photos'[i].timestamp = Cell(photos[i].timestamp)
                /\ photos'[i].subfolder = Cell(photos[i].subfolder)
                /\ photos'[i].name = Cell(photos[i].name)
                /\ photos'[i].filename = Cell(photos[i].filename)
                /\ photos'[i].file_path = Cell(photos[i].file_path)]_vars

\* C16: no two threads are between the read and the write of the session
\* file at the same time, and once every thread has finished the sheet
\* holds one row for every photo of session_photos, in order.
C16_PersistenceSerialized ==
    /\ Cardinality({t \in 1..Len(log_threads) :
                       log_threads[t].pc = "write"}) <= 1
    /\ (\A t \in 1..Len(log_threads) : log_threads[t].pc = "done")
       => /\ Len(session_file.rows) = Len(session_photos)
          /\ \A i \in 1..Len(session_photos) :
                session_file.rows[i]["Path"] = Cell(session_photos[i].path)

\* C21: undo_delete returns 'No deletions to undo' exactly when the undo
\* stack is empty, and 'Deleted file not found in trash' when the trashed
\* file of the newest entry does not exist; in both cases photos, the sheet
\* and the files are what they were.
C21_UndoFailures ==
    [][(last'.op = "undo_delete")
       => /\ deleted_photos = <<>>
                <=> (last'.status = "error"
                        /\ last'.message = "No deletions to undo")
          /\ (deleted_photos # <<>>
                /\ ~Exists(fs, deleted_photos[Len(deleted_photos)].trash_path))
                => (last'.status = "error"
                       /\ last'.message = "Deleted file not found in trash")
          /\ last'.message \in {"No deletions to undo",
                                "Deleted file not found in trash"}
                => /\ photos' = photos
                   /\ session_file' = session_file
                   /\ fs' = fs]_vars

\* an undo found the trashed file of its entry missing, in a session that
\* still has a record and a file
C21_Witness ==
    /\ last.op = "undo_delete"
    /\ last.message = "Deleted file not found in trash"
    /\ photos # <<>>
    /\ ProjectFiles(fs) # {}

\* C22: the trash directory never holds more files than undo_delete_limit.
C22_TrashBounded ==
    Cardinality(TrashFiles(fs)) <= undo_delete_limit

\* C23: every call returns a dict with a status; no exception leaves an
\* operation uncaught.
C23_NoUncaughtFault ==
    last.status # "raised"

\* C24: a delete_photo that reads use_trash off removes the file of the
\* record for good: the record leaves photos, the trash and the undo stack
\* are what they were; when the unlink fails it returns an error and photos
\* and the files are what they were.
C24_PermanentDelete ==
    [][(last'.op = "delete_photo" /\ last'.setting = "off")
       => /\ TrashFiles(fs') = TrashFiles(fs)
          /\ \A p \in TrashFiles(fs) : fs'[p] = fs[p]
          /\ deleted_photos' = deleted_photos
          /\ IF last'.io = "unlink"
             THEN /\ last'.status = "error"
                  /\ last'.message = "Cannot delete file"
                  /\ photos' = photos
                  /\ fs' = fs
             ELSE /\ last'.status = "success"
                  /\ \E i \in 1..Len(photos) :
                        /\ photos' = SubSeq(photos, 1, i - 1)
                                         \o SubSeq(photos, i + 1, Len(photos))
                        /\ Exists(fs, photos[i].file_path)
                        /\ ~Exists(fs', photos[i].file_path)]_vars

\* a record was deleted for good while the undo stack held an entry
C24_Witness ==
    /\ last.op = "delete_photo" /\ last.setting = "off"
    /\ last.status = "success" /\ last.branch = "permanent"
    /\ Len(deleted_photos) = 1
    /\ photos = <<>>
    /\ ProjectFiles(fs) = {}

\* C25: every record of photos has the file_path project folder / subfolder
\* / filename, and its filename is its name followed by ".jpg" or its name,
\* a counter of at least 2 and ".jpg".
C25_FilePathOfRecord ==
    \A i \in 1..Len(photos) :
        LET rec == photos[i]
            stem == rec.filename.stem
        IN /\ rec.file_path.parent = <<ProjectFolder, rec.subfolder>>
           /\ rec.file_path.name = rec.filename
           /\ rec.filename.suffix = ".jpg"
           /\ \/ stem = rec.name
              \/ /\ Len(stem) = Len(rec.name) + 1
                 /\ SubSeq(stem, 1, Len(rec.name)) = rec.name
                 /\ stem[Len(stem)] \in 2..(MaxAdds + 2)

\* an update_photo under auto_increment has renamed a record to John_2.jpg
C25_Witness ==
    /\ last.op = "update_photo" /\ last.status = "success"
    /\ last.setting = "auto_increment"
    /\ \E i \in 1..Len(photos) :
          /\ photos[i].filename.stem = <<"John", 2>>
          /\ photos[i].file_path.name.stem = <<"John", 2>>

C27_RecordsHaveFiles ==
    faults = 0 => \A i \in 1..Len(photos) : Exists(fs, photos[i].file_path)

\* C28: a successful undo_delete leaves every file of the project folder in
\* place with its content.
C28_UndoOverwritesNothing ==
    [][(last'.op = "undo_delete" /\ last'.status = "success")
       => \A p \in ProjectFiles(fs) : Exists(fs', p) /\ fs'[p] = fs[p]]_vars

\* C29: the trash_path of every entry of the undo stack names a file that
\* exists in the trash directory, and no two entries have the same one.
C29_UndoEntriesInTrash ==
    /\ \A i \in 1..Len(deleted_photos) :
          /\ deleted_photos[i].trash_path.parent = TrashFolder
          /\ Exists(fs, deleted_photos[i].trash_path)
    /\ \A i, j \in 1..Len(deleted_photos) :
          i # j => deleted_photos[i].trash_path # deleted_photos[j].trash_path

\* C30: a breadcrumb that exists names the project folder and counts the
\* records of photos, and after end_session there is none.
C30_BreadcrumbCurrent ==
    /\ active_session # None
          => /\ active_session[1].photo_count = Len(photos)
             /\ active_session[1].project_folder = ProjectFolder
    /\ last.op = "end_session" => active_session = None

====
